---------------------------- MODULE Spec2Model ----------------------------
(***************************************************************************)
(* A model of samply-symbols/src/windows.rs: the PE/PDB symbol map         *)
(* backend.  Five parts, each with its own specification:                  *)
(*   SpecUrl     parse_gitiles_url on bounded inputs                       *)
(*   SpecUnwind  function_start_and_end_addresses on bounded unwind tables *)
(*   SpecMapper  SrcSrvPathMapper::map_path and its cache                  *)
(*   SpecLoad    load_symbol_map_for_pdb_corresponding_to_binary           *)
(*   SpecLookup  concurrent PdbSymbolMap::lookup_sync callers              *)
(* Strings that the code takes apart are sequences of one-character        *)
(* strings; strings that the code only compares are TLA+ strings.          *)
(***************************************************************************)
EXTENDS Integers, Sequences, FiniteSets, TLC

VARIABLES
    \* parse_gitiles_url: the input, the result, the position
    url_pc, url_input, url_result,
    \* function_start_and_end_addresses: the image's unwind infos, the .pdata
    \* bytes, the loop index, the chain cursor, the addresses dereferenced for
    \* the current record, the entries and the returned pair of sequences
    uw_pc, uw_image, uw_pdata, uw_idx, uw_canonical_frame, uw_visited,
    uw_entries, uw_result,
    \* SrcSrvPathMapper: the srcsrv stream, the flag computed by new(), the
    \* cache, and the log of the map_path calls made so far
    mp_stream, mp_flag, mp_cache, mp_log,
    \* load_symbol_map_for_pdb_corresponding_to_binary: the position, the
    \* binary, the helper and the PDB it is run on, the steps run so far, and
    \* the returned Result
    ld_pc, ld_input, ld_steps, ld_result,
    \* PdbSymbolMap::lookup_sync callers: the query context, each caller's
    \* position, address, found function frames, symbol, frames mapped so far
    \* and result, and the two mutexes (the path mapper inside the inner
    \* mutex is mp_stream, mp_flag, mp_cache)
    lk_context, lk_pc, lk_method, lk_address, lk_function_frames, lk_symbol, lk_frames,
    lk_result, lk_outer, lk_inner

urlVars == <<url_pc, url_input, url_result>>

uwVars == <<uw_pc, uw_image, uw_pdata, uw_idx, uw_canonical_frame, uw_visited,
            uw_entries, uw_result>>

mpVars == <<mp_stream, mp_flag, mp_cache, mp_log>>

ldVars == <<ld_pc, ld_input, ld_steps, ld_result>>

lkVars == <<lk_context, lk_pc, lk_method, lk_address, lk_function_frames, lk_symbol,
            lk_frames, lk_result, lk_outer, lk_inner>>

vars == <<urlVars, uwVars, mpVars, ldVars, lkVars>>

(***************************************************************************)
(* Generic helpers.                                                        *)
(***************************************************************************)
None == [some |-> FALSE]

Some(v) == [some |-> TRUE, value |-> v]

Optional(S) == {None} \cup {Some(v) : v \in S}

SeqsUpTo(S, n) == UNION {[1..k -> S] : k \in 0..n}

RECURSIVE Flatten(_)
Flatten(ss) == IF ss = <<>> THEN <<>> ELSE Head(ss) \o Flatten(Tail(ss))

(***************************************************************************)
(* Part 1: parse_gitiles_url (nom combinators over &str).                  *)
(***************************************************************************)
HttpsTag == <<"h", "t", "t", "p", "s", ":", "/", "/">>

GitTag == <<".", "g", "i", "t", "/", "+", "/">>

SlashTag == <<"/">>

FormatTag == <<"?", "f", "o", "r", "m", "a", "t", "=", "T", "E", "X", "T">>

\* A successful parser step: the remaining input and the consumed output.
ParseOk(rest, out) == [ok |-> TRUE, rest |-> rest, out |-> out]

\* nom::Err::Error(nom::error::Error::new(input, kind))
ParseErr(input, kind) == [ok |-> FALSE, input |-> input, kind |-> kind]

\* str::find: the byte index of the first occurrence of t in s, or -1.
find_substring(t, s) ==
    LET hits == {i \in 0..(Len(s) - Len(t)) : SubSeq(s, i + 1, i + Len(t)) = t}
    IN  IF hits = {} THEN -1 ELSE CHOOSE i \in hits : \A j \in hits : i <= j

\* nom::bytes::complete::tag
tag(t, s) ==
    IF Len(s) >= Len(t) /\ SubSeq(s, 1, Len(t)) = t
    THEN ParseOk(SubSeq(s, Len(t) + 1, Len(s)), t)
    ELSE ParseErr(s, "Tag")

\* nom::bytes::complete::take_until1: fails when t is absent or at index 0.
take_until1(t, s) ==
    LET i == find_substring(t, s)
    IN  IF i = -1 \/ i = 0
        THEN ParseErr(s, "TakeUntil")
        ELSE ParseOk(SubSeq(s, i + 1, Len(s)), SubSeq(s, 1, i))

\* nom::combinator::eof
eof(s) == IF s = <<>> THEN ParseOk(s, s) ELSE ParseErr(s, "Eof")

\* terminated(take_until1(t), tag(t)): the output of the first parser,
\* the rest after the second.
until_then_tag(t, s) ==
    LET a == take_until1(t, s)
    IN  IF ~a.ok THEN a
        ELSE LET b == tag(t, a.rest)
             IN  IF ~b.ok THEN b ELSE ParseOk(b.rest, a.out)

\* format_then_eof without the end-of-input check.
format_no_eof(s) == tag(FormatTag, s)

\* terminated(tag("?format=TEXT"), eof)
format_then_eof(s) ==
    LET a == tag(FormatTag, s)
    IN  IF ~a.ok THEN a
        ELSE LET b == eof(a.rest)
             IN  IF ~b.ok THEN b ELSE ParseOk(b.rest, a.out)

\* terminated(take_until1("?format=TEXT"), terminated(tag(..), eof))
path_then_format(s) ==
    LET a == take_until1(FormatTag, s)
    IN  IF ~a.ok THEN a
        ELSE LET b == format_then_eof(a.rest)
             IN  IF ~b.ok THEN b ELSE ParseOk(b.rest, a.out)

MappedPathGit(repo, path, rev) ==
    [variant |-> "Git", repo |-> repo, path |-> path, rev |-> rev]

parse_gitiles_url(input) ==
    LET p0 == tag(HttpsTag, input)
    IN  IF ~p0.ok THEN p0
        ELSE LET p1 == until_then_tag(GitTag, p0.rest)
             IN  IF ~p1.ok THEN p1
                 ELSE LET p2 == until_then_tag(SlashTag, p1.rest)
                      IN  IF ~p2.ok THEN p2
                          ELSE LET p3 == path_then_format(p2.rest)
                               IN  IF ~p3.ok THEN p3
                                   ELSE [ok |-> TRUE,
                                         value |-> MappedPathGit(p1.out, p3.out, p2.out)]

\* Bounds of the inputs of SpecUrl.
MaxFrags == 7

UrlFrags == {<<"a">>, SlashTag, GitTag, FormatTag}

UrlPrefixes == {HttpsTag, <<>>}

UrlInputs ==
    {p \o Flatten(fs) : p \in UrlPrefixes, fs \in SeqsUpTo(UrlFrags, MaxFrags)}

UrlIdle == url_pc = "idle" /\ url_input = <<>> /\ url_result = None

UrlStart ==
    /\ url_pc = "start"
    /\ url_input \in UrlInputs
    /\ url_result = None

UrlParse ==
    /\ url_pc = "start"
    /\ url_result' = Some(parse_gitiles_url(url_input))
    /\ url_pc' = "done"
    /\ UNCHANGED url_input

(***************************************************************************)
(* The gitiles URL grammar, stated on offsets of the input rather than by  *)
(* scanning: `https://` repo `.git/+/` rev `/` path `?format=TEXT` end.    *)
(***************************************************************************)
\* t occurs in s at 0-based offset i.
IsAt(t, s, i) == i >= 0 /\ i + Len(t) <= Len(s) /\ SubSeq(s, i + 1, i + Len(t)) = t

Offsets(t, s) == {i \in 0..(Len(s) - Len(t)) : IsAt(t, s, i)}

\* s, cut after its first n characters, is a URL of the grammar whose
\* `.git/+/` is at offset a and whose `/` after rev is at offset b: every
\* component is non-empty and ends at the first occurrence of its marker.
GitilesFormAt(s, a, b, n) ==
    LET c == n - Len(FormatTag)
    IN  /\ IsAt(HttpsTag, s, 0)
        /\ a > Len(HttpsTag) /\ IsAt(GitTag, s, a)
        /\ \A i \in Len(HttpsTag)..(a - 1) : ~IsAt(GitTag, s, i)
        /\ b > a + Len(GitTag) /\ IsAt(SlashTag, s, b)
        /\ \A i \in (a + Len(GitTag))..(b - 1) : ~IsAt(SlashTag, s, i)
        /\ c > b + 1 /\ IsAt(FormatTag, s, c)
        /\ \A i \in (b + 1)..(c - 1) : ~IsAt(FormatTag, s, i)

GitilesRepo(s, a) == SubSeq(s, Len(HttpsTag) + 1, a)

GitilesRev(s, a, b) == SubSeq(s, a + Len(GitTag) + 1, b)

GitilesPath(s, b, n) == SubSeq(s, b + 2, n - Len(FormatTag))

\* The pairs of marker offsets under which the first n characters of s
\* are a URL of the grammar.
GitilesForms(s, n) ==
    IF ~IsAt(FormatTag, s, n - Len(FormatTag)) THEN {}
    ELSE {ab \in Offsets(GitTag, s) \X Offsets(SlashTag, s) :
            GitilesFormAt(s, ab[1], ab[2], n)}

\* The lengths of the prefixes of s that end with `?format=TEXT`.
FormatEnds(s) == {c + Len(FormatTag) : c \in Offsets(FormatTag, s)}

UrlDone == url_pc = "done"

UrlOutcome == url_result.value

\* C2: parse_gitiles_url accepts exactly the gitiles grammar: an input of
\* the form yields Git{repo, path, rev} with the three components of the
\* input, an input not of the form yields a parse failure, and an input that
\* continues after a complete URL's `?format=TEXT` yields a parse failure.
C2_ParseExactGrammar ==
    UrlDone =>
        /\ \A ab \in GitilesForms(url_input, Len(url_input)) :
              /\ UrlOutcome.ok
              /\ UrlOutcome.value =
                    MappedPathGit(GitilesRepo(url_input, ab[1]),
                                  GitilesPath(url_input, ab[2], Len(url_input)),
                                  GitilesRev(url_input, ab[1], ab[2]))
        /\ GitilesForms(url_input, Len(url_input)) = {} => ~UrlOutcome.ok
        /\ \A n \in FormatEnds(url_input) \ {Len(url_input)} :
              GitilesForms(url_input, n) # {} => ~UrlOutcome.ok

\* A URL with a two-part repo was parsed into its three components.
C2_Witness ==
    /\ UrlDone
    /\ UrlOutcome.ok
    /\ UrlOutcome.value.repo = <<"/", "a">>
    /\ UrlOutcome.value.rev = <<"a">>
    /\ UrlOutcome.value.path = <<"a">>

(***************************************************************************)
(* Part 2: function_start_and_end_addresses.                               *)
(*                                                                         *)
(* .pdata is a run of 12-byte RuntimeFunction records followed by the      *)
(* bytes of a partial record, if any.  The image maps an unwind-info       *)
(* address to what pe_data_at and UnwindInfo::parse make of it:            *)
(* unreadable, an unwind info without a chained trailer, or an unwind info *)
(* whose trailer is a chained RuntimeFunction.                             *)
(***************************************************************************)
\* 3 * size_of::<u32>()
RecordSize == 12

MaxRecords == 3

\* The values of the u32 fields of the bounded tables.
Addr == {0, 1}

\* The lengths of the partial record after the last whole record.
PdataTails == {0, 4}

RuntimeFunction(b, e, u) ==
    [begin_address |-> b, end_address |-> e, unwind_info_address |-> u]

\* The unwind-info addresses of the bounded images.  The records of the
\* table point at the first two; the third is there for a chain of two
\* links to end at.
UnwindInfoAddr == {0, 1, 2}

RuntimeFunctions == {RuntimeFunction(b, e, u) : b \in Addr, e \in Addr, u \in Addr}

\* The chained records of the bounded images (end_address is never read).
ChainedFunctions == {RuntimeFunction(b, b, u) : b \in Addr, u \in UnwindInfoAddr}

Unreadable == [kind |-> "unreadable"]

NoChain == [kind |-> "nochain"]

Chained(rf) == [kind |-> "chained", chained |-> rf]

UnwindInfos == {Unreadable, NoChain} \cup {Chained(rf) : rf \in ChainedFunctions}

\* The bounded images: what is at each unwind-info address.  The first
\* two addresses hold any unwind info, cycles among them included; the
\* third holds one that ends a chain.
Images ==
    {image \in [UnwindInfoAddr -> UnwindInfos] : image[2] \in {Unreadable, NoChain}}

\* pdata.len()
PdataLen(pdata) == RecordSize * Len(pdata.records) + pdata.tail

\* pdata.chunks_exact(12): the whole records; the remainder is left out.
chunks_exact(pdata) ==
    SubSeq(pdata.records, 1, PdataLen(pdata) \div RecordSize)

\* sections.pe_data_at(..).and_then(UnwindInfo::parse).and_then(trailer):
\* Some(chained) when the trailer is ChainedUnwindInfo, else None.
chained_trailer(image, unwind_info_rva) ==
    IF image[unwind_info_rva].kind = "chained"
    THEN Some(image[unwind_info_rva].chained)
    ELSE None

\* An entry whose canonical start is the record's own begin address.
entry_own_start(runtime_function, canonical_frame) ==
    [start_address |-> runtime_function.begin_address,
     end_address |-> runtime_function.end_address,
     canonical_start_address |-> runtime_function.begin_address]

Entry(runtime_function, canonical_frame) ==
    [start_address |-> runtime_function.begin_address,
     end_address |-> runtime_function.end_address,
     canonical_start_address |-> canonical_frame.begin_address]

\* The predicate of entries.chunk_by(..)
same_group(lhs, rhs) == lhs.canonical_start_address = rhs.canonical_start_address

\* A grouping by key: one group per canonical start, in the order of first
\* appearance, holding every entry with that canonical start.
group_by_key(entries) ==
    LET firsts == {i \in 1..Len(entries) :
                      \A j \in 1..(i - 1) : ~same_group(entries[j], entries[i])}
        nth(k) == CHOOSE i \in firsts : Cardinality({f \in firsts : f <= i}) = k
        same_as(k) == {i \in 1..Len(entries) : same_group(entries[nth(k)], entries[i])}
        member(k, m) == CHOOSE i \in same_as(k) :
                            Cardinality({f \in same_as(k) : f <= i}) = m
    IN  [k \in 1..Cardinality(firsts) |->
            [m \in 1..Cardinality(same_as(k)) |-> entries[member(k, m)]]]

\* slice::chunk_by: the maximal runs of consecutive elements whose adjacent
\* pairs satisfy same_group, in order.
RECURSIVE chunk_by(_)
chunk_by(entries) ==
    IF entries = <<>> THEN <<>>
    ELSE LET rest == chunk_by(Tail(entries))
         IN  IF rest # <<>> /\ same_group(Head(entries), Head(Head(rest)))
             THEN <<(<<Head(entries)>> \o Head(rest))>> \o Tail(rest)
             ELSE <<(<<Head(entries)>>)>> \o rest

\* A boundary that takes its end from the first record of the group.
boundary_first_only(e) == <<e[1].start_address, e[1].end_address>>

\* .map(|e| (e.first().unwrap().start_address, e.last().unwrap().end_address))
group_boundary(e) == <<e[1].start_address, e[Len(e)].end_address>>

\* .unzip(): the pair (starts, ends)
boundaries(entries) ==
    LET groups == chunk_by(entries)
    IN  [starts |-> [k \in 1..Len(groups) |-> group_boundary(groups[k])[1]],
         ends |-> [k \in 1..Len(groups) |-> group_boundary(groups[k])[2]]]

UwIdle ==
    /\ uw_pc = "idle"
    /\ uw_image = <<>>
    /\ uw_pdata = [records |-> <<>>, tail |-> 0]
    /\ uw_idx = 0
    /\ uw_canonical_frame = None
    /\ uw_visited = {}
    /\ uw_entries = <<>>
    /\ uw_result = None

UwStart ==
    /\ uw_pc = "record"
    /\ uw_image \in Images
    /\ uw_pdata \in [records : SeqsUpTo(RuntimeFunctions, MaxRecords), tail : PdataTails]
    /\ uw_idx = 1
    /\ uw_canonical_frame = None
    /\ uw_visited = {}
    /\ uw_entries = <<>>
    /\ uw_result = None

\* for entry in pdata.chunks_exact(12): the next record; the chain starts
\* at the record itself.
UwNextRecord ==
    /\ uw_pc = "record"
    /\ uw_idx <= Len(chunks_exact(uw_pdata))
    /\ uw_canonical_frame' = Some(chunks_exact(uw_pdata)[uw_idx])
    /\ uw_visited' = {}
    /\ uw_pc' = "chain"
    /\ UNCHANGED <<uw_image, uw_pdata, uw_idx, uw_entries, uw_result>>

\* One turn of the loop whose trailer is a chained unwind info:
\* canonical_frame = chained.
UwFollowChain ==
    /\ uw_pc = "chain"
    /\ LET unwind_info_rva == uw_canonical_frame.value.unwind_info_address
           trailer == chained_trailer(uw_image, unwind_info_rva)
       IN  /\ trailer.some
           /\ uw_canonical_frame' = Some(trailer.value)
           /\ uw_visited' = uw_visited \cup {unwind_info_rva}
    /\ UNCHANGED <<uw_pc, uw_image, uw_pdata, uw_idx, uw_entries, uw_result>>

\* The turn of the loop that breaks, and entries.push(..).
UwEndChain ==
    /\ uw_pc = "chain"
    /\ LET unwind_info_rva == uw_canonical_frame.value.unwind_info_address
       IN  ~chained_trailer(uw_image, unwind_info_rva).some
    /\ uw_entries' = Append(uw_entries,
                            Entry(chunks_exact(uw_pdata)[uw_idx], uw_canonical_frame.value))
    /\ uw_idx' = uw_idx + 1
    /\ uw_canonical_frame' = None
    /\ uw_visited' = {}
    /\ uw_pc' = "record"
    /\ UNCHANGED <<uw_image, uw_pdata, uw_result>>

\* After the last chunk: chunk_by, map, unzip, return.
UwGroup ==
    /\ uw_pc = "record"
    /\ uw_idx > Len(chunks_exact(uw_pdata))
    /\ uw_result' = Some(boundaries(uw_entries))
    /\ uw_pc' = "done"
    /\ UNCHANGED <<uw_image, uw_pdata, uw_idx, uw_canonical_frame, uw_visited, uw_entries>>

(***************************************************************************)
(* Properties of function_start_and_end_addresses.                         *)
(***************************************************************************)
UwDone == uw_pc = "done"

\* The canonical start the chain loop resolved for the i-th record.
UwCanon(i) == uw_entries[i].canonical_start_address

\* The records that begin a maximal run of equal canonical starts.
UwRunStarts ==
    {i \in 1..Len(uw_entries) : i = 1 \/ UwCanon(i - 1) # UwCanon(i)}

\* The last record of the run that begins at i.
UwRunEnd(i) ==
    CHOOSE j \in i..Len(uw_entries) :
        /\ \A k \in (i + 1)..j : UwCanon(k - 1) = UwCanon(k)
        /\ j = Len(uw_entries) \/ UwCanon(j) # UwCanon(j + 1)

\* The position of the run that begins at i among the runs.
UwRunRank(i) == Cardinality({r \in UwRunStarts : r <= i})

\* C3: when the extractor returns, every maximal run of consecutive records
\* with the same canonical start has exactly one boundary, in table order,
\* from the first record's own begin address to the last record's own end
\* address, and there are no other boundaries.
C3_OneBoundaryPerRun ==
    UwDone =>
        /\ Len(uw_result.value.starts) = Cardinality(UwRunStarts)
        /\ Len(uw_result.value.ends) = Cardinality(UwRunStarts)
        /\ \A i \in UwRunStarts :
              /\ uw_result.value.starts[UwRunRank(i)] = uw_pdata.records[i].begin_address
              /\ uw_result.value.ends[UwRunRank(i)] =
                    uw_pdata.records[UwRunEnd(i)].end_address

\* Three records, the first two merged through a followed chain link into
\* one boundary whose end differs from the first record's end.
C3_Witness ==
    /\ UwDone
    /\ Len(uw_entries) = 3
    /\ Len(uw_result.value.starts) = 2
    /\ UwCanon(1) = UwCanon(2)
    /\ uw_entries[1].canonical_start_address # uw_entries[1].start_address
    /\ uw_entries[1].end_address # uw_entries[2].end_address

\* C8: when the chain of the current record reaches an unwind-info address
\* it has already dereferenced, the chain ends there: the next step leaves
\* the chain loop.
C8_RepeatedAddressEndsChain ==
    [][(uw_pc = "chain"
        /\ uw_canonical_frame.value.unwind_info_address \in uw_visited)
       => uw_pc' = "record"]_vars

\* C9: a table whose length is not a multiple of the record size is
\* rejected: the extractor returns no boundaries for it.
C9_MisalignedTableRejected ==
    (UwDone /\ PdataLen(uw_pdata) % RecordSize # 0) => ~uw_result.some


\* The record a chain that starts at `rf` ends at: the last record reached
\* before a link that cannot be followed, within `fuel` links.
RECURSIVE UwChainEnd(_, _)
UwChainEnd(rf, fuel) ==
    IF fuel > 0 /\ uw_image[rf.unwind_info_address].kind = "chained"
    THEN UwChainEnd(uw_image[rf.unwind_info_address].chained, fuel - 1)
    ELSE rf

\* A chain that ends visits every unwind-info address at most once.
UwFuel == Cardinality(UnwindInfoAddr)

\* C13: the canonical start of a record whose unwind info cannot be read
\* is the record's own begin address, and the canonical start of any
\* record is the begin address of the last record its chain reaches, the
\* one whose unwind info is unreadable or has no chained trailer.
C13_CanonicalIsLastReached ==
    \A i \in 1..Len(uw_entries) :
        LET rf == uw_pdata.records[i]
            last == UwChainEnd(rf, UwFuel)
        IN  /\ uw_image[rf.unwind_info_address].kind = "unreadable"
                  => UwCanon(i) = rf.begin_address
            /\ uw_image[last.unwind_info_address].kind # "chained"
            /\ UwCanon(i) = last.begin_address

\* A record's chain was followed over two links, through a parent with
\* another begin address to a grandparent with yet another begin address
\* than the parent's; the grandparent's unwind info is unreadable, the
\* resolution stopped there and the canonical start is the grandparent's
\* begin address, not the parent's.
C13_Witness ==
    /\ UwDone
    /\ \E i \in 1..Len(uw_entries) :
          LET rf == uw_pdata.records[i]
              parent == UwChainEnd(rf, 1)
              grandparent == UwChainEnd(rf, 2)
          IN  /\ uw_image[rf.unwind_info_address].kind = "chained"
              /\ uw_image[parent.unwind_info_address].kind = "chained"
              /\ uw_image[grandparent.unwind_info_address].kind = "unreadable"
              /\ parent.begin_address # rf.begin_address
              /\ grandparent.begin_address # parent.begin_address
              /\ UwCanon(i) = grandparent.begin_address
              /\ UwCanon(i) # parent.begin_address

\* C14: every boundary the extractor returns has an end that is not below
\* its start.
C14_EndNotBelowStart ==
    UwDone =>
        \A k \in 1..Len(uw_result.value.starts) :
            uw_result.value.ends[k] >= uw_result.value.starts[k]

\* The number of places of the table where the canonical start changes.
UwChanges ==
    Cardinality({i \in 2..Len(uw_entries) : UwCanon(i - 1) # UwCanon(i)})

\* C15: the groups are the runs of consecutive records: two records with
\* the same canonical start and a record with another canonical start
\* between them are in different groups; starts and ends have the same
\* length, one more than the number of changes of canonical start, and the
\* k-th start is the begin address of the record that opens the k-th run.
C15_ConsecutiveGroupsOnly ==
    UwDone =>
        /\ Len(uw_result.value.starts) = Len(uw_result.value.ends)
        /\ Len(uw_result.value.starts) =
              IF uw_entries = <<>> THEN 0 ELSE UwChanges + 1
        /\ \A i \in 1..Len(uw_entries) : \A j \in (i + 1)..Len(uw_entries) :
              (UwCanon(i) = UwCanon(j)
               /\ \E k \in (i + 1)..(j - 1) : UwCanon(k) # UwCanon(i))
                 => /\ UwRunRank(i) < UwRunRank(j)
                    /\ UwRunRank(j) <= Len(uw_result.value.starts)
        /\ \A i \in 1..Len(uw_entries) :
              (i = 1 \/ UwCanon(i - 1) # UwCanon(i))
                 => uw_result.value.starts[UwRunRank(i)] = uw_entries[i].start_address

\* Three records whose canonical starts are A, B, A gave three boundaries.
C15_Witness ==
    /\ UwDone
    /\ Len(uw_entries) = 3
    /\ UwCanon(1) = UwCanon(3)
    /\ UwCanon(2) # UwCanon(1)
    /\ Len(uw_result.value.starts) = 3
    /\ Len(uw_result.value.ends) = 3
(***************************************************************************)
(* Part 3: SrcSrvPathMapper.                                               *)
(*                                                                         *)
(* The srcsrv stream is read-only: its raw variables SRCSRVCMD and         *)
(* SRC_EXTRACT_CMD, and for every path what                                *)
(* source_and_raw_var_values_for_path returns for it.                      *)
(***************************************************************************)
\* The text of windows.rs:509.
Python3Cmd ==
    "cmd /c \"mkdir \"%SRC_EXTRACT_TARGET_DIR%\" & python3 -c \"import urllib.request, base64;url = \\\"%var4%\\\";u = urllib.request.urlopen(url);open(r\\\"%SRC_EXTRACT_TARGET%\\\", \\\"wb\\\").write(%var5%(u.read()))\""

\* The text of windows.rs:513.
PrefixedPython3Cmd ==
    "SRC_EXTRACT_CMD=cmd /c \"mkdir \"%SRC_EXTRACT_TARGET_DIR%\" & python3 -c \"import urllib.request, base64;url = \\\"%var4%\\\";u = urllib.request.urlopen(url);open(r\\\"%SRC_EXTRACT_TARGET%\\\", \\\"wb\\\").write(%var5%(u.read()))\""

\* The python 2 text of the comment at windows.rs:497.
Python2Cmd ==
    "cmd /c \"mkdir \"%SRC_EXTRACT_TARGET_DIR%\" & python -c \"import urllib2, base64;url = \\\"%var4%\\\";u = urllib2.urlopen(url);open(r\\\"%SRC_EXTRACT_TARGET%\\\", \\\"wb\\\").write(%var5%(u.read()))\""

ExtractCmdSelector == "%SRC_EXTRACT_CMD%"

Base64Decode == "base64.b64decode"

\* srcsrv_stream.get_raw_var(name)
get_raw_var(stream, name) == stream.raw_vars[name]

\* Accepts every stream whose SRCSRVCMD selects the extract command.
matches_any_extract_cmd(srcsrv_stream) ==
    get_raw_var(srcsrv_stream, "SRCSRVCMD") = Some(ExtractCmdSelector)

matches_chrome_gitiles_workaround(srcsrv_stream) ==
    LET cmd == get_raw_var(srcsrv_stream, "SRC_EXTRACT_CMD")
    IN  /\ get_raw_var(srcsrv_stream, "SRCSRVCMD") = Some(ExtractCmdSelector)
        /\ (cmd = Some(Python3Cmd) \/ cmd = Some(PrefixedPython3Cmd))

\* map.get(name) on the raw variable values of a path
map_get(map, name) == map[name]

\* parse_gitiles_url(url).ok()
parse_ok(url) ==
    LET r == parse_gitiles_url(url)
    IN  IF r.ok THEN Some(r.value) ELSE None

gitiles_to_mapped_path(flag, map) ==
    IF ~flag THEN None
    ELSE IF map_get(map, "var5") # Some(Base64Decode) THEN None
    ELSE IF ~map_get(map, "var4").some THEN None
    ELSE parse_ok(map_get(map, "var4").value)

\* MappedPath::from_url: a download URL of the model carries what the
\* inference makes of it.
from_url(url) == url.inferred

\* The match on source_and_raw_var_values_for_path(path, "C:\\Dummy").
stream_lookup(stream, flag, path) ==
    LET r == stream.paths[path]
    IN  CASE r.kind = "download" -> from_url(r.url)
          [] r.kind = "command" -> gitiles_to_mapped_path(flag, r.map)
          [] OTHER -> None

\* An insert that keeps only the paths that have a mapping.
cache_insert_some_only(cache, path, value) ==
    IF value.some
    THEN [p \in DOMAIN cache \cup {path} |-> IF p = path THEN value ELSE cache[p]]
    ELSE cache

\* self.cache.insert(path.to_string(), value.clone())
cache_insert(cache, path, value) ==
    [p \in DOMAIN cache \cup {path} |-> IF p = path THEN value ELSE cache[p]]

\* A map_path whose cache forgets which path a value was stored for.
map_path_any_key(stream, flag, cache, path) ==
    IF DOMAIN cache # {}
    THEN [value |-> cache[CHOOSE p \in DOMAIN cache : TRUE], cache |-> cache,
          looked_up |-> FALSE]
    ELSE LET value == stream_lookup(stream, flag, path)
         IN  [value |-> value,
              cache |-> cache_insert(cache, path, value),
              looked_up |-> TRUE]

\* map_path: the returned value, the cache afterwards, and whether the
\* stream was consulted.
map_path(stream, flag, cache, path) ==
    IF path \in DOMAIN cache
    THEN [value |-> cache[path], cache |-> cache, looked_up |-> FALSE]
    ELSE LET value == stream_lookup(stream, flag, path)
         IN  [value |-> value,
              cache |-> cache_insert(cache, path, value),
              looked_up |-> TRUE]

\* Bounds and inputs of SpecMapper.
MaxCalls == 3

Paths == {"a.cpp", "b.cpp"}

GitilesUrl ==
    HttpsTag \o <<"a">> \o GitTag \o <<"b">> \o SlashTag \o <<"c">> \o FormatTag

Var4Values == {GitilesUrl, GitilesUrl \o <<"x">>, Tail(GitilesUrl)}

Var5Values == {Base64Decode, "zlib.decompress"}

VarMaps ==
    {[n \in {"var4", "var5"} |-> IF n = "var4" THEN v4 ELSE v5] :
        v4 \in Optional(Var4Values), v5 \in Optional(Var5Values)}

DownloadUrls ==
    {[text |-> "https://host/mapped", inferred |-> Some([variant |-> "Url"])],
     [text |-> "https://host/unmapped", inferred |-> None]}

PathOutcomes ==
    {[kind |-> "err"], [kind |-> "none"], [kind |-> "other"]}
    \cup {[kind |-> "download", url |-> u] : u \in DownloadUrls}
    \cup {[kind |-> "command", map |-> m] : m \in VarMaps}

SrcSrvCmdValues == Optional({ExtractCmdSelector, "%SRC_OTHER_CMD%"})

ExtractCmdValues ==
    Optional({Python3Cmd, PrefixedPython3Cmd, Python2Cmd, "cmd /c echo"})

RawVars ==
    {[n \in {"SRCSRVCMD", "SRC_EXTRACT_CMD"} |-> IF n = "SRCSRVCMD" THEN c ELSE e] :
        c \in SrcSrvCmdValues, e \in ExtractCmdValues}

Streams == [raw_vars : RawVars, paths : [Paths -> PathOutcomes]]

\* An empty HashMap
EmptyCache == <<>>

MpIdle ==
    /\ mp_stream = [raw_vars |-> <<>>, paths |-> <<>>]
    /\ mp_flag = FALSE
    /\ mp_cache = EmptyCache
    /\ mp_log = <<>>

\* SrcSrvPathMapper::new(srcsrv_stream)
MpStart ==
    /\ mp_stream \in Streams
    /\ mp_flag = matches_chrome_gitiles_workaround(mp_stream)
    /\ mp_cache = EmptyCache
    /\ mp_log = <<>>

\* One call of map_path(path).
MpMapPath(path) ==
    /\ Len(mp_log) < MaxCalls
    /\ LET r == map_path(mp_stream, mp_flag, mp_cache, path)
       IN  /\ mp_cache' = r.cache
           /\ mp_log' = Append(mp_log, [path |-> path, value |-> r.value,
                                        looked_up |-> r.looked_up])
    /\ UNCHANGED <<mp_stream, mp_flag>>

(***************************************************************************)
(* Properties of SrcSrvPathMapper.                                         *)
(***************************************************************************)
\* C4: of two map_path calls for the same path, the later one returns what
\* the earlier one returned and does not consult the stream: the stream is
\* consulted at most once per path, whatever the result (None included).
C4_MapPathMemoized ==
    \A i \in 1..Len(mp_log) : \A j \in (i + 1)..Len(mp_log) :
        mp_log[i].path = mp_log[j].path =>
            /\ mp_log[j].value = mp_log[i].value
            /\ ~mp_log[j].looked_up

\* A path whose lookup failed was asked for twice, and in between another
\* path was mapped.
C4_Witness ==
    /\ Len(mp_log) = 3
    /\ mp_log[1].path = mp_log[3].path
    /\ mp_log[2].path # mp_log[1].path
    /\ mp_stream.paths[mp_log[1].path].kind = "err"
    /\ mp_log[1].looked_up
    /\ mp_log[3].value = None
    /\ mp_log[2].value.some

\* The stream and the variables of the path have the one known shape.
KnownWorkaroundShape(stream, map) ==
    /\ stream.raw_vars["SRCSRVCMD"] = Some("%SRC_EXTRACT_CMD%")
    /\ stream.raw_vars["SRC_EXTRACT_CMD"] \in {Some(Python3Cmd), Some(PrefixedPython3Cmd)}
    /\ map["var5"] = Some("base64.b64decode")
    /\ map["var4"].some
    /\ GitilesForms(map["var4"].value, Len(map["var4"].value)) # {}

\* C10: for a path whose retrieval method is a command template, map_path
\* returns a Git mapping if SRCSRVCMD selects the extract command,
\* SRC_EXTRACT_CMD is one of the two known texts, var5 is base64.b64decode
\* and var4 is a URL of the gitiles grammar, and None in every other case.
C10_GitilesOnlyOnKnownShape ==
    \A i \in 1..Len(mp_log) :
        LET outcome == mp_stream.paths[mp_log[i].path]
        IN  outcome.kind = "command" =>
                IF KnownWorkaroundShape(mp_stream, outcome.map)
                THEN /\ mp_log[i].value.some
                     /\ mp_log[i].value.value.variant = "Git"
                ELSE mp_log[i].value = None

\* A command-template path was mapped to a Git permalink under the prefixed
\* text, and another command-template path of the same stream was not.
C10_Witness ==
    /\ Len(mp_log) = 2
    /\ mp_stream.raw_vars["SRC_EXTRACT_CMD"] = Some(PrefixedPython3Cmd)
    /\ mp_stream.paths[mp_log[1].path].kind = "command"
    /\ mp_stream.paths[mp_log[2].path].kind = "command"
    /\ mp_log[1].value = Some(MappedPathGit(<<"a">>, <<"c">>, <<"b">>))
    /\ mp_log[2].value = None

(***************************************************************************)
(* Part 4: load_symbol_map_for_pdb_corresponding_to_binary.                *)
(*                                                                         *)
(* The inputs are what each fallible step makes of the binary, of the      *)
(* helper and of the PDB file: whether the binary parses, its pdb_info and *)
(* debug id, whether the PDB path is UTF-8, whether the file location      *)
(* gives a PDB location, whether the helper loads the file, and the PDB's  *)
(* guid and ages (or that it does not parse).                              *)
(***************************************************************************)
Guids == {"guid1", "guid2"}

Ages == {1, 2}

\* DebugId::from_parts(guid, age)
DebugId(guid, age) == [guid |-> guid, age |-> age]

DebugIds == {DebugId(g, a) : g \in Guids, a \in Ages}

\* The places where the parsing of a PDB file can fail, in the order of the
\* code, and "none" for a file that parses.
PdbFailures ==
    {"none", "open", "pdb_information", "debug_information", "named_stream",
     "try_from_pdb", "make_context", "srcsrv_parse"}

\* The outcomes of the named_stream(b"srcsrv") of a file: the stream, or
\* one of the two errors that stand for a file without one.
NamedStreams == {"stream", "not_found"}

\* A PDB file, as what each fallible call makes of it.
PdbFile(failure, guid, info_age, dbi_age, named_stream) ==
    [open_ok |-> failure # "open",
     pdb_information |->
        IF failure = "pdb_information" THEN None
        ELSE Some([guid |-> guid, age |-> info_age]),
     debug_information |->
        IF failure = "debug_information" THEN None ELSE Some([age |-> dbi_age]),
     named_stream |-> IF failure = "named_stream" THEN "err" ELSE named_stream,
     try_from_pdb_ok |-> failure # "try_from_pdb",
     make_context_ok |-> failure # "make_context",
     srcsrv_parses |-> failure # "srcsrv_parse"]

PdbFiles ==
    {PdbFile(f, g, a, d, n) :
        f \in PdbFailures, g \in Guids, a \in Ages, d \in Optional(Ages),
        n \in NamedStreams}

LoadInputs ==
    [binary_parses : BOOLEAN,
     pdb_info : {"some", "none", "err"},
     binary_debug_id : DebugIds,
     path_is_utf8 : BOOLEAN,
     location_given : BOOLEAN,
     load_ok : BOOLEAN,
     pdb_file : PdbFiles]

Ok(v) == [ok |-> TRUE, value |-> v]

Err(kind) == [ok |-> FALSE, error |-> [kind |-> kind]]

\* Error::UnmatchedDebugId(binary_debug_id, symbol_map.debug_id())
UnmatchedDebugId(expected, actual) ==
    [ok |-> FALSE,
     error |-> [kind |-> "UnmatchedDebugId", expected |-> expected, actual |-> actual]]

\* An error made from a pdb::Error: Error::PdbError(context, e), and what
\* `?` makes of a pdb::Error.
PdbError(context) == [ok |-> FALSE, error |-> [kind |-> "PdbError", context |-> context]]

\* An error made by .context(..) from a pdb_addr2line::Error.
PdbAddr2lineError(context) ==
    [ok |-> FALSE, error |-> [kind |-> "PdbAddr2lineError", context |-> context]]

\* What `?` makes of the srcsrv::ParseError of SrcSrvStream::parse.
SrcSrvParseError == [ok |-> FALSE, error |-> [kind |-> "SrcSrvParseError"]]

\* dbi.age().unwrap_or(info.age) and DebugId::from_parts(info.guid, age):
\* the age of the debug information stream, or the age of the PDB
\* information stream when there is none.
pdb_debug_id(pdb_file) ==
    LET info == pdb_file.pdb_information.value
        dbi == pdb_file.debug_information.value
    IN  DebugId(info.guid, IF dbi.age.some THEN dbi.age.value ELSE info.age)

\* PdbObjectWithFileData::new: the PdbObject of a file, or the error of the
\* first call that fails.
PdbObjectWithFileData_new(pdb_file) ==
    IF ~pdb_file.open_ok THEN PdbError("?")
    ELSE IF ~pdb_file.pdb_information.some THEN PdbError("pdb_information")
    ELSE IF ~pdb_file.debug_information.some THEN PdbError("?")
    ELSE IF pdb_file.named_stream = "err" THEN PdbError("pdb.named_stream(srcsrv)")
    ELSE IF ~pdb_file.try_from_pdb_ok
    THEN PdbAddr2lineError("ContextConstructionData::try_from_pdb")
    ELSE Ok([debug_id |-> pdb_debug_id(pdb_file),
             srcsrv_stream |-> IF pdb_file.named_stream = "stream"
                               THEN Some([parses |-> pdb_file.srcsrv_parses])
                               ELSE None,
             make_context_ok |-> pdb_file.make_context_ok])

\* PdbObject::make_pdb_symbol_map: the context, then the path mapper of
\* the srcsrv stream if there is one.
make_pdb_symbol_map(pdb_object) ==
    IF ~pdb_object.make_context_ok THEN PdbAddr2lineError("make_context()")
    ELSE IF pdb_object.srcsrv_stream.some /\ ~pdb_object.srcsrv_stream.value.parses
    THEN SrcSrvParseError
    ELSE Ok([debug_id |-> pdb_object.debug_id])

\* get_symbol_map_for_pdb: PdbObjectWithFileData::new(..)?, then
\* PdbSymbolMap::new(..)?, which makes the inner symbol map.
get_symbol_map_for_pdb(pdb_file) ==
    LET file_data_and_object == PdbObjectWithFileData_new(pdb_file)
    IN  IF ~file_data_and_object.ok THEN file_data_and_object
        ELSE make_pdb_symbol_map(file_data_and_object.value)

\* A comparison of the guids alone.
guids_differ(a, b) == a.guid # b.guid

\* symbol_map.debug_id() != binary_debug_id
debug_ids_differ(a, b) == a # b

LdIdle ==
    /\ ld_pc = "idle"
    /\ ld_input = <<>>
    /\ ld_steps = <<>>
    /\ ld_result = None

LdStart ==
    /\ ld_pc = "parse_binary"
    /\ ld_input \in LoadInputs
    /\ ld_steps = <<>>
    /\ ld_result = None

\* A step that is run again after it failed.
step_retried(step, ok, error, next) ==
    /\ ld_pc = step
    /\ ld_steps' = Append(ld_steps, step)
    /\ ld_pc' = IF ok THEN next ELSE step
    /\ UNCHANGED <<ld_input, ld_result>>

\* A step that fails returns its error; one that succeeds goes on.
LdStep(step, ok, error, next) ==
    /\ ld_pc = step
    /\ ld_steps' = Append(ld_steps, step)
    /\ IF ok
       THEN ld_pc' = next /\ ld_result' = ld_result
       ELSE ld_pc' = "done" /\ ld_result' = Some(error)
    /\ UNCHANGED ld_input

\* object::File::parse(file_contents)
LdParseBinary ==
    LdStep("parse_binary", ld_input.binary_parses, Err("ObjectParseError"), "pdb_info")

\* match pe.pdb_info()
LdPdbInfo ==
    LdStep("pdb_info", ld_input.pdb_info = "some", Err("NoDebugInfoInPeBinary"), "path_utf8")

\* std::str::from_utf8(info.path())
LdPathUtf8 ==
    LdStep("path_utf8", ld_input.path_is_utf8, Err("PdbPathNotUtf8"), "pdb_location")

\* file_location.location_for_pdb_from_binary(pdb_path_str)
LdPdbLocation ==
    LdStep("pdb_location", ld_input.location_given,
           Err("FileLocationRefusedPdbLocation"), "load_file")

\* helper.load_file(pdb_location): the loader is invoked and the function
\* is suspended at .await until the outcome is there.
LdLoadFile ==
    /\ ld_pc = "load_file"
    /\ ld_steps' = Append(ld_steps, "load_file")
    /\ ld_pc' = "load_file_pending"
    /\ UNCHANGED <<ld_input, ld_result>>

\* A poll that finds the loader's outcome: .map_err(..)? returns the error,
\* or the function goes on with the file.
LdLoadFileReady ==
    /\ ld_pc = "load_file_pending"
    /\ IF ld_input.load_ok
       THEN ld_pc' = "parse_pdb" /\ ld_result' = ld_result
       ELSE ld_pc' = "done" /\ ld_result' = Some(Err("HelperErrorDuringOpenFile"))
    /\ UNCHANGED <<ld_input, ld_steps>>

\* The caller drops the future while it is suspended: nothing is returned.
LdDropped ==
    /\ ld_pc = "load_file_pending"
    /\ ld_pc' = "dropped"
    /\ UNCHANGED <<ld_input, ld_steps, ld_result>>

\* get_symbol_map_for_pdb(FileContentsWrapper::new(pdb_file), file_location)?
LdParsePdb ==
    LdStep("parse_pdb", get_symbol_map_for_pdb(ld_input.pdb_file).ok,
           get_symbol_map_for_pdb(ld_input.pdb_file), "compare")

\* The identity check and the return of the symbol map.
LdCompare ==
    /\ ld_pc = "compare"
    /\ ld_steps' = Append(ld_steps, "compare")
    /\ LET symbol_map == get_symbol_map_for_pdb(ld_input.pdb_file).value
           binary_debug_id == ld_input.binary_debug_id
       IN  ld_result' =
              IF debug_ids_differ(symbol_map.debug_id, binary_debug_id)
              THEN Some(UnmatchedDebugId(binary_debug_id, symbol_map.debug_id))
              ELSE Some(Ok(symbol_map))
    /\ ld_pc' = "done"
    /\ UNCHANGED ld_input

(***************************************************************************)
(* Properties of load_symbol_map_for_pdb_corresponding_to_binary.          *)
(***************************************************************************)
LdDone == ld_pc = "done"

\* The PDB was loaded and parsed: the identity check ran.
LdCompared == LdDone /\ Len(ld_steps) > 0 /\ ld_steps[Len(ld_steps)] = "compare"

\* The identity of the PDB file: its guid and the age of its debug
\* information stream, or of its PDB information stream without one.
LdPdbIdentity ==
    LET info == ld_input.pdb_file.pdb_information.value
        dbi == ld_input.pdb_file.debug_information.value
    IN  [guid |-> info.guid, age |-> IF dbi.age = None THEN info.age ELSE dbi.age.value]

\* C1: once the PDB has been loaded and parsed, the operation fails with
\* UnmatchedDebugId carrying the binary's identity and the PDB's identity
\* when the two differ, and returns the symbol map when they are equal.
C1_IdentityCheck ==
    LdCompared =>
        IF LdPdbIdentity # ld_input.binary_debug_id
        THEN /\ ~ld_result.value.ok
             /\ ld_result.value.error.kind = "UnmatchedDebugId"
             /\ ld_result.value.error.expected = ld_input.binary_debug_id
             /\ ld_result.value.error.actual = LdPdbIdentity
        ELSE /\ ld_result.value.ok
             /\ ld_result.value.value.debug_id = ld_input.binary_debug_id

\* The PDB has the binary's guid and another age, and the operation failed
\* with both identities.
C1_Witness ==
    /\ LdCompared
    /\ ld_input.pdb_file.pdb_information.value.guid = ld_input.binary_debug_id.guid
    /\ ~ld_result.value.ok
    /\ ld_result.value.error.expected.age = 1
    /\ ld_result.value.error.actual.age = 2


\* The steps of the operation, in the order of the code.
LdOrder ==
    <<"parse_binary", "pdb_info", "path_utf8", "pdb_location", "load_file",
      "parse_pdb", "compare">>

\* The error kind of each step, as the claim lists them.
LdErrorKinds ==
    <<"ObjectParseError", "NoDebugInfoInPeBinary", "PdbPathNotUtf8",
      "FileLocationRefusedPdbLocation", "HelperErrorDuringOpenFile", "PdbError",
      "UnmatchedDebugId">>

\* The error kind of the first call that fails in the parsing of the PDB
\* file, or "none": the PDB itself, the addr2line context made from it, or
\* its srcsrv stream.
LdPdbFailureKind ==
    LET f == ld_input.pdb_file
    IN  CASE ~f.open_ok -> "PdbError"
          [] f.pdb_information = None -> "PdbError"
          [] f.debug_information = None -> "PdbError"
          [] f.named_stream = "err" -> "PdbError"
          [] ~f.try_from_pdb_ok -> "PdbAddr2lineError"
          [] ~f.make_context_ok -> "PdbAddr2lineError"
          [] f.named_stream = "stream" /\ ~f.srcsrv_parses -> "SrcSrvParseError"
          [] OTHER -> "none"

\* Whether step i fails on the input of the call.
LdStepFails(i) ==
    CASE i = 1 -> ~ld_input.binary_parses
      [] i = 2 -> ld_input.pdb_info # "some"
      [] i = 3 -> ~ld_input.path_is_utf8
      [] i = 4 -> ~ld_input.location_given
      [] i = 5 -> ~ld_input.load_ok
      [] i = 6 -> LdPdbFailureKind # "none"
      [] i = 7 -> LdPdbFailureKind = "none" /\ LdPdbIdentity # ld_input.binary_debug_id

\* The first step that fails on the input, or 0 when none does.
LdFirstFailure ==
    IF \E i \in 1..7 : LdStepFails(i) /\ \A j \in 1..(i - 1) : ~LdStepFails(j)
    THEN CHOOSE i \in 1..7 : LdStepFails(i) /\ \A j \in 1..(i - 1) : ~LdStepFails(j)
    ELSE 0

\* The steps run in the fixed order, none after a step that failed, the
\* loader invoked at most once, and a result only at the end.
LdOrderKept ==
    /\ Len(ld_steps) <= 7
    /\ ld_steps = SubSeq(LdOrder, 1, Len(ld_steps))
    /\ Cardinality({i \in 1..Len(ld_steps) : ld_steps[i] = "load_file"}) <= 1
    /\ \A i \in 1..(Len(ld_steps) - 1) : ~LdStepFails(i)
    /\ ~LdDone => ld_result = None

\* The operation ended at the first step that fails on the input, with the
\* error kind kinds[i] for step i, or with Ok after all seven steps.
LdEndsAtFirstFailure(kinds) ==
    LdDone =>
        /\ ld_result.some
        /\ IF LdFirstFailure = 0
           THEN Len(ld_steps) = 7 /\ ld_result.value.ok
           ELSE /\ Len(ld_steps) = LdFirstFailure
                /\ ~ld_result.value.ok
                /\ ld_result.value.error.kind = kinds[LdFirstFailure]

\* C11 as stated: the steps run in the fixed order parse binary, debug
\* reference, UTF-8 check, PDB location, load, parse PDB, compare; the
\* operation ends at the first step that fails, with that step's one error
\* kind (a PDB error for the parsing of the PDB), and no later step runs;
\* the loader is invoked at most once.
C11_OneErrorKindPerStep ==
    LdOrderKept /\ LdEndsAtFirstFailure(LdErrorKinds)

\* C11 as amended: the same order, the same end at the first failure and
\* the same single invocation of the loader; the error of the parsing of
\* the PDB is the error of the call that failed in it: a PDB error, the
\* error of the addr2line context, or the parse error of the srcsrv stream.
C11_FixedOrderFirstFailure ==
    LdOrderKept
    /\ LdEndsAtFirstFailure([LdErrorKinds EXCEPT ![6] = LdPdbFailureKind])

\* The PDB was loaded and parsed up to its srcsrv stream, which did not
\* parse: the operation ended there with that parse error and the
\* identities, although they differ, were not compared.
C11_Witness ==
    /\ LdDone
    /\ ld_steps = SubSeq(LdOrder, 1, 6)
    /\ ld_result.value.error.kind = "SrcSrvParseError"
    /\ ld_input.pdb_file.make_context_ok
    /\ LdPdbIdentity # ld_input.binary_debug_id
(***************************************************************************)
(* Part 5: PdbSymbolMap::lookup_sync, called by concurrent threads.        *)
(*                                                                         *)
(* PdbSymbolMap is a Mutex around the inner symbol map (the outer mutex);  *)
(* PdbSymbolMapInner holds the query context and a Mutex around the path   *)
(* mapper (the inner mutex).  The query context is read-only: for every    *)
(* relative address, what find_frames returns for it.                      *)
(***************************************************************************)
Threads == {"t1", "t2"}

MaxFrames == 2

Rvas == {1}

Relative(rva) == [kind |-> "Relative", value |-> rva]

Svma(svma) == [kind |-> "Svma", value |-> svma]

FileOffset(offset) == [kind |-> "FileOffset", value |-> offset]

LookupAddresses ==
    {Relative(rva) : rva \in Rvas}
    \cup {Svma(v) : v \in {1, 2147483647}} \cup {FileOffset(v) : v \in {1, 2147483647}}

\* pdb_addr2line::Frame
Frame(function, file, line) == [function |-> function, file |-> file, line |-> line]

FrameValues ==
    {Frame(None, None, None),
     Frame(Some("f"), None, Some(7)),
     Frame(Some("g"), Some("a.cpp"), None),
     Frame(None, Some("b.cpp"), Some(7))}

\* pdb_addr2line::FunctionFrames
FunctionFrames(start_rva, end_rva, frames) ==
    [start_rva |-> start_rva, end_rva |-> end_rva, frames |-> frames]

\* What context.find_frames(rva) returns: Err(_), Ok(None) or Ok(Some(_)).
FindFramesResults ==
    {[kind |-> "err"], [kind |-> "not_found"]}
    \cup {[kind |-> "found", function_frames |-> FunctionFrames(1, e, fs)] :
            e \in Optional({0, 3}), fs \in SeqsUpTo(FrameValues, MaxFrames)}

\* self.context.find_frames(rva): an address the context does not know
\* is not found.
find_frames(context, rva) ==
    IF rva \in DOMAIN context THEN context[rva] ELSE [kind |-> "not_found"]

\* demangle::demangle_any(name): the names of the model are not mangled.
demangle_any(name) == name

\* A has_debug_info that asks for a line.
has_line_info(func) ==
    IF Len(func.frames) > 1 THEN TRUE
    ELSE IF Len(func.frames) = 0 THEN FALSE
    ELSE func.frames[1].line.some

has_debug_info(func) ==
    IF Len(func.frames) > 1 THEN TRUE
    ELSE IF Len(func.frames) = 0 THEN FALSE
    ELSE func.frames[1].file.some \/ func.frames[1].line.some

\* SymbolInfo { address, size, name }
SymbolInfo(address, size, name) == [address |-> address, size |-> size, name |-> name]

\* match &function_frames.frames.last().unwrap().function
symbol_name(function_frames) ==
    LET last == function_frames.frames[Len(function_frames.frames)]
    IN  IF last.function.some THEN demangle_any(last.function.value) ELSE "unknown"

\* The u32 value 2^32 - k, for 0 < k < 2^32.
WrappedU32(k) == [two_to_32_minus |-> k]

\* end_rva - start_rva in u32 where the subtraction wraps around.
wrapping_sub(end_rva, start_rva) ==
    IF end_rva >= start_rva
    THEN end_rva - start_rva
    ELSE WrappedU32(start_rva - end_rva)

\* PathMapper::map_path: the srcsrv mapper when the PDB has a srcsrv
\* stream, no mapping without one.
PathMapper_map_path(stream, flag, cache, path) ==
    IF stream.some
    THEN map_path(stream.value, flag, cache, path)
    ELSE [value |-> None, cache |-> cache, looked_up |-> FALSE]

\* SourceFilePath::new(path.into_owned(), mapped_path)
SourceFilePath(raw_path, mapped_path) == [raw_path |-> raw_path, mapped_path |-> mapped_path]

\* FrameDebugInfo { function, file_path, line_number }
FrameDebugInfo(function, file_path, line_number) ==
    [function |-> function, file_path |-> file_path, line_number |-> line_number]

\* SyncAddressInfo { symbol, frames }
SyncAddressInfo(symbol, frames) == [symbol |-> symbol, frames |-> frames]

\* The srcsrv streams of the PDBs of SpecLookup.
LookupPathOutcomes ==
    {[kind |-> "err"],
     [kind |-> "download",
      url |-> [text |-> "https://host/mapped", inferred |-> Some([variant |-> "Url"])]]}

LookupStreams ==
    {[raw_vars |-> [n \in {"SRCSRVCMD", "SRC_EXTRACT_CMD"} |-> None],
      paths |-> ps] : ps \in [Paths -> LookupPathOutcomes]}

\* The methods of SymbolMapTrait besides lookup_sync.
Methods == {"debug_id", "symbol_count", "iter_symbols"}

\* The functions the context knows: context.functions()
functions(context) ==
    {context[rva].function_frames : rva \in {r \in DOMAIN context : context[r].kind = "found"}}

\* What the inner symbol map returns for debug_id, symbol_count and
\* iter_symbols.
inner_result(method, context) ==
    CASE method = "debug_id" -> [debug_id |-> "debug_id"]
      [] method = "symbol_count" -> [symbol_count |-> Cardinality(functions(context))]
      [] method = "iter_symbols" ->
            [symbols |-> {f.start_rva : f \in functions(context)}]

\* Mutex: who holds it, and whether a holder panicked.
Unlocked == [holder |-> "none", poisoned |-> FALSE]

\* A lock that is always there for the taking.
always_available(mutex) == TRUE

\* Mutex::lock returns once no other thread holds the mutex.
lock_available(mutex) == mutex.holder = "none"

\* The guard is dropped on return.
unlock(mutex) == [mutex EXCEPT !.holder = "none"]

\* The guard is dropped while the thread unwinds from a panic.
unlock_poisoned(mutex) == [holder |-> "none", poisoned |-> TRUE]

LkIdle ==
    /\ lk_context = <<>>
    /\ lk_pc = <<>>
    /\ lk_method = <<>>
    /\ lk_address = <<>>
    /\ lk_function_frames = <<>>
    /\ lk_symbol = <<>>
    /\ lk_frames = <<>>
    /\ lk_result = <<>>
    /\ lk_outer = Unlocked
    /\ lk_inner = Unlocked

\* The state after PdbSymbolMap::new: no caller yet.
LkStart ==
    /\ lk_context \in [Rvas -> FindFramesResults]
    /\ lk_pc = [t \in Threads |-> "idle"]
    /\ lk_method = [t \in Threads |-> "none"]
    /\ lk_address = [t \in Threads |-> None]
    /\ lk_function_frames = [t \in Threads |-> None]
    /\ lk_symbol = [t \in Threads |-> None]
    /\ lk_frames = [t \in Threads |-> <<>>]
    /\ lk_result = [t \in Threads |-> None]
    /\ lk_outer = Unlocked
    /\ lk_inner = Unlocked

\* The path mapper of SpecLookup, made by make_pdb_symbol_map.
LkMapperStart ==
    /\ mp_stream \in Optional(LookupStreams)
    /\ mp_flag = (mp_stream.some /\ matches_chrome_gitiles_workaround(mp_stream.value))
    /\ mp_cache = EmptyCache
    /\ mp_log = <<>>

\* A thread calls PdbSymbolMap::lookup_sync(address).
LkCall(t, address) ==
    /\ lk_pc[t] = "idle"
    /\ lk_address' = [lk_address EXCEPT ![t] = Some(address)]
    /\ lk_method' = [lk_method EXCEPT ![t] = "lookup_sync"]
    /\ lk_pc' = [lk_pc EXCEPT ![t] = "with_inner"]
    /\ UNCHANGED <<lk_context, lk_function_frames, lk_symbol, lk_frames, lk_result,
                   lk_outer, lk_inner, mpVars>>

\* A thread calls debug_id, symbol_count or iter_symbols of PdbSymbolMap.
LkCallMethod(t, method) ==
    /\ lk_pc[t] = "idle"
    /\ lk_method' = [lk_method EXCEPT ![t] = method]
    /\ lk_pc' = [lk_pc EXCEPT ![t] = "with_inner"]
    /\ UNCHANGED <<lk_context, lk_address, lk_function_frames, lk_symbol, lk_frames,
                   lk_result, lk_outer, lk_inner, mpVars>>

\* with_inner: self.0.lock().unwrap(); the unwrap panics on a poisoned
\* mutex.
LkLockOuter(t) ==
    /\ lk_pc[t] = "with_inner"
    /\ lock_available(lk_outer)
    /\ IF lk_outer.poisoned
       THEN /\ lk_pc' = [lk_pc EXCEPT ![t] = "panic_poisoned"]
            /\ UNCHANGED lk_outer
       ELSE /\ lk_pc' = [lk_pc EXCEPT ![t] =
                          IF lk_method[t] = "lookup_sync" THEN "match" ELSE "inner_call"]
            /\ lk_outer' = [lk_outer EXCEPT !.holder = t]
    /\ UNCHANGED <<lk_context, lk_method, lk_address, lk_function_frames, lk_symbol, lk_frames,
                   lk_result, lk_inner, mpVars>>

\* The thread returns `ret` from lookup_sync and with_inner drops its guard.
LkReturns(t, ret) ==
    /\ lk_result' = [lk_result EXCEPT ![t] = Some(ret)]
    /\ lk_pc' = [lk_pc EXCEPT ![t] = "done"]
    /\ lk_outer' = unlock(lk_outer)

\* The thread panics at `place` and with_inner's guard is dropped while
\* unwinding.
LkPanics(t, place) ==
    /\ lk_pc' = [lk_pc EXCEPT ![t] = place]
    /\ lk_outer' = unlock_poisoned(lk_outer)
    /\ UNCHANGED lk_result

\* The closure of debug_id, symbol_count or iter_symbols: it reads the
\* inner symbol map under with_inner's guard and returns.
LkInnerCall(t) ==
    /\ lk_pc[t] = "inner_call"
    /\ LkReturns(t, inner_result(lk_method[t], lk_context))
    /\ UNCHANGED <<lk_context, lk_method, lk_address, lk_function_frames, lk_symbol,
                   lk_frames, lk_inner, mpVars>>

\* Every address but a file offset is taken for a relative address.
is_not_file_offset(address) == address.kind # "FileOffset"

\* LookupAddress::Relative(rva) => rva
is_relative(address) == address.kind = "Relative"

\* PdbSymbolMapInner::lookup_sync: match address.
LkMatchAddress(t) ==
    /\ lk_pc[t] = "match"
    /\ IF is_relative(lk_address[t].value)
       THEN /\ lk_pc' = [lk_pc EXCEPT ![t] = "find_frames"]
            /\ UNCHANGED <<lk_result, lk_outer>>
       ELSE LkReturns(t, None)
    /\ UNCHANGED <<lk_context, lk_method, lk_address, lk_function_frames, lk_symbol, lk_frames,
                   lk_inner, mpVars>>

\* self.context.find_frames(rva).ok()?? returns without a function.
LkFindFramesNone(t) ==
    /\ lk_pc[t] = "find_frames"
    /\ find_frames(lk_context, lk_address[t].value.value).kind # "found"
    /\ LkReturns(t, None)
    /\ UNCHANGED <<lk_context, lk_method, lk_address, lk_function_frames, lk_symbol, lk_frames,
                   lk_inner, mpVars>>

\* find_frames found a function without frames: frames.last().unwrap()
\* panics.
LkFindFramesEmpty(t) ==
    /\ lk_pc[t] = "find_frames"
    /\ find_frames(lk_context, lk_address[t].value.value).kind = "found"
    /\ find_frames(lk_context, lk_address[t].value.value).function_frames.frames = <<>>
    /\ LkPanics(t, "panic_unwrap")
    /\ UNCHANGED <<lk_context, lk_method, lk_address, lk_function_frames, lk_symbol, lk_frames,
                   lk_inner, mpVars>>

\* The function was found and the symbol is `symbol`: without debug info
\* the lookup returns the symbol alone, with debug info it goes on to map
\* the frames.
LkSymbolMade(t, function_frames, symbol) ==
    IF has_debug_info(function_frames)
    THEN /\ lk_function_frames' = [lk_function_frames EXCEPT ![t] = Some(function_frames)]
         /\ lk_symbol' = [lk_symbol EXCEPT ![t] = Some(symbol)]
         /\ lk_pc' = [lk_pc EXCEPT ![t] = "path_mapper_lock"]
         /\ UNCHANGED <<lk_result, lk_outer>>
    ELSE /\ LkReturns(t, Some(SyncAddressInfo(symbol, None)))
         /\ UNCHANGED <<lk_function_frames, lk_symbol>>

\* find_frames found a function with frames whose end_rva is absent or not
\* below start_rva.
LkFindFramesFound(t) ==
    /\ lk_pc[t] = "find_frames"
    /\ find_frames(lk_context, lk_address[t].value.value).kind = "found"
    /\ LET function_frames == find_frames(lk_context, lk_address[t].value.value).function_frames
       IN  /\ function_frames.frames # <<>>
           /\ function_frames.end_rva.some =>
                 function_frames.end_rva.value >= function_frames.start_rva
           /\ LkSymbolMade(t, function_frames,
                  SymbolInfo(function_frames.start_rva,
                             IF function_frames.end_rva.some
                             THEN Some(function_frames.end_rva.value
                                       - function_frames.start_rva)
                             ELSE None,
                             symbol_name(function_frames)))
    /\ UNCHANGED <<lk_context, lk_method, lk_address, lk_frames, lk_inner, mpVars>>

\* end_rva < start_rva in a build without overflow checks: the size wraps.
LkFindFramesWraps(t) ==
    /\ lk_pc[t] = "find_frames"
    /\ find_frames(lk_context, lk_address[t].value.value).kind = "found"
    /\ LET function_frames == find_frames(lk_context, lk_address[t].value.value).function_frames
       IN  /\ function_frames.frames # <<>>
           /\ function_frames.end_rva.some
           /\ function_frames.end_rva.value < function_frames.start_rva
           /\ LkSymbolMade(t, function_frames,
                  SymbolInfo(function_frames.start_rva,
                             Some(wrapping_sub(function_frames.end_rva.value,
                                               function_frames.start_rva)),
                             symbol_name(function_frames)))
    /\ UNCHANGED <<lk_context, lk_method, lk_address, lk_frames, lk_inner, mpVars>>

\* end_rva < start_rva in a build with overflow checks: the subtraction
\* panics.
LkFindFramesOverflows(t) ==
    /\ lk_pc[t] = "find_frames"
    /\ find_frames(lk_context, lk_address[t].value.value).kind = "found"
    /\ LET function_frames == find_frames(lk_context, lk_address[t].value.value).function_frames
       IN  /\ function_frames.frames # <<>>
           /\ function_frames.end_rva.some
           /\ function_frames.end_rva.value < function_frames.start_rva
    /\ LkPanics(t, "panic_overflow")
    /\ UNCHANGED <<lk_context, lk_method, lk_address, lk_function_frames, lk_symbol, lk_frames,
                   lk_inner, mpVars>>

\* let mut path_mapper = self.path_mapper.lock().unwrap();
LkLockInner(t) ==
    /\ lk_pc[t] = "path_mapper_lock"
    /\ lock_available(lk_inner)
    /\ lk_inner' = [lk_inner EXCEPT !.holder = t]
    /\ lk_pc' = [lk_pc EXCEPT ![t] = "map_frames"]
    /\ UNCHANGED <<lk_context, lk_method, lk_address, lk_function_frames, lk_symbol, lk_frames,
                   lk_result, lk_outer, mpVars>>

\* One turn of .map(|frame| FrameDebugInfo { .. }): the next frame, its
\* file path mapped through the path mapper.
LkMapFrame(t) ==
    /\ lk_pc[t] = "map_frames"
    /\ Len(lk_frames[t]) < Len(lk_function_frames[t].value.frames)
    /\ LET frame == lk_function_frames[t].value.frames[Len(lk_frames[t]) + 1]
       IN  IF frame.file.some
           THEN LET r == PathMapper_map_path(mp_stream, mp_flag, mp_cache, frame.file.value)
                IN  /\ mp_cache' = r.cache
                    /\ lk_frames' =
                          [lk_frames EXCEPT ![t] =
                              Append(@, FrameDebugInfo(frame.function,
                                         Some(SourceFilePath(frame.file.value, r.value)),
                                         frame.line))]
           ELSE /\ mp_cache' = mp_cache
                /\ lk_frames' =
                      [lk_frames EXCEPT ![t] =
                          Append(@, FrameDebugInfo(frame.function, None, frame.line))]
    /\ UNCHANGED <<lk_context, lk_method, lk_pc, lk_address, lk_function_frames, lk_symbol,
                   lk_result, lk_outer, lk_inner, mp_stream, mp_flag, mp_log>>

\* .collect(), Some(FramesLookupResult::Available(frames)), and the return:
\* the path mapper guard is dropped, then with_inner's.
LkReturnFrames(t) ==
    /\ lk_pc[t] = "map_frames"
    /\ Len(lk_frames[t]) = Len(lk_function_frames[t].value.frames)
    /\ LkReturns(t, Some(SyncAddressInfo(lk_symbol[t].value, Some(lk_frames[t]))))
    /\ lk_inner' = unlock(lk_inner)
    /\ UNCHANGED <<lk_context, lk_method, lk_address, lk_function_frames, lk_symbol, lk_frames,
                   mpVars>>

(***************************************************************************)
(* Properties of PdbSymbolMap::lookup_sync.                                *)
(***************************************************************************)
LkUnsupported(t) ==
    lk_address[t].some /\ lk_address[t].value.kind \in {"Svma", "FileOffset"}

\* The thread's call has returned (it did not panic).
LkReturned(t) == lk_pc[t] = "done"

\* The function frames the context holds for the thread's relative address.
LkFound(t) == lk_context[lk_address[t].value.value].function_frames

\* The thread's lookup succeeded: it returned Some(SyncAddressInfo).
LkSucceeded(t) ==
    LkReturned(t) /\ lk_method[t] = "lookup_sync" /\ lk_result[t].value.some

\* What holds of a caller with an Svma or FileOffset address in every
\* state: it is never at the context lookup or at the path mapper, it holds
\* no path mapper lock and has no frames, and when it has returned it has
\* returned None.  Its only panic is with_inner's unwrap of a mutex that
\* another caller's panic has poisoned, before the inner lookup_sync runs.
LkUnsupportedState(t) ==
    /\ lk_pc[t] \in {"with_inner", "match", "done", "panic_poisoned"}
    /\ lk_inner.holder # t
    /\ lk_function_frames[t] = None /\ lk_frames[t] = <<>>
    /\ LkReturned(t) => lk_result[t] = Some(None)
    /\ lk_pc[t] = "panic_poisoned" => lk_outer.poisoned

\* C5: the inner lookup_sync with an Svma or FileOffset address returns
\* None for every address value: it does not consult the query context,
\* does not panic, and its one step leaves the path mapper cache and the
\* path mapper lock as they are.
C5_UnsupportedKindsReturnNone ==
    /\ [](\A t \in Threads : LkUnsupported(t) => LkUnsupportedState(t))
    /\ [][\A t \in Threads :
            (LkUnsupported(t) /\ lk_pc[t] = "match" /\ lk_pc'[t] # "match")
                => /\ lk_pc'[t] = "done"
                   /\ lk_result'[t] = Some(None)
                   /\ mp_cache' = mp_cache
                   /\ lk_inner' = lk_inner]_vars

\* An Svma lookup returned None while the context holds a function with
\* debug info for the relative address and the cache is still empty.
C5_Witness ==
    \E t \in Threads :
        /\ LkUnsupported(t)
        /\ lk_address[t].value = Svma(2147483647)
        /\ LkReturned(t)
        /\ lk_result[t] = Some(None)
        /\ lk_context[1].kind = "found"
        /\ mp_cache = EmptyCache

\* C6: a successful lookup carries a frame list exactly when the function
\* found has more than one frame, or one frame with a file or a line; with
\* a single frame that has neither it carries the symbol and no frames.
C6_FramesIffDebugInfo ==
    \A t \in Threads :
        LkSucceeded(t) =>
            LET frames == LkFound(t).frames
                judged == \/ Len(frames) > 1
                          \/ /\ Len(frames) = 1
                             /\ (frames[1].file # None \/ frames[1].line # None)
                info == lk_result[t].value.value
            IN  /\ info.frames.some <=> judged
                /\ info.frames.some => Len(info.frames.value) = Len(frames)
                /\ info.symbol.address = LkFound(t).start_rva
                /\ (Len(frames) = 1 /\ frames[1].file = None /\ frames[1].line = None)
                      => (info.frames = None /\ info.symbol.name \in {"unknown", "f", "g"})

\* One caller got frames for a single frame that has a file and no line.
C6_Witness ==
    \E t \in Threads :
        /\ LkSucceeded(t)
        /\ Len(LkFound(t).frames) = 1
        /\ LkFound(t).frames[1].file.some
        /\ LkFound(t).frames[1].line = None
        /\ lk_result[t].value.value.frames.some

\* C7 as stated: while a caller's context lookup runs, that caller holds no
\* lock.
C7_NoLockDuringFindFrames ==
    \A t \in Threads :
        lk_pc[t] = "find_frames" => (lk_outer.holder # t /\ lk_inner.holder # t)

\* C7 as amended: the path mapper lock is held only while a caller maps its
\* frames, never while a context lookup runs; the outer lock of the handle
\* is held from the entry into the inner symbol map to the return, the
\* context lookup included, so at most one context lookup is in progress.
C7_LockScopes ==
    /\ \A t \in Threads :
          /\ lk_inner.holder = t <=> lk_pc[t] = "map_frames"
          /\ lk_outer.holder = t <=>
                lk_pc[t] \in {"inner_call", "match", "find_frames", "path_mapper_lock",
                              "map_frames"}
    /\ Cardinality({t \in Threads : lk_pc[t] = "find_frames"}) <= 1

\* One caller's context lookup runs while the other caller waits for the
\* outer lock.
C7_Witness ==
    \E t \in Threads : \E u \in Threads \ {t} :
        /\ lk_pc[t] = "find_frames"
        /\ lk_outer.holder = t
        /\ lk_pc[u] = "with_inner"
        /\ lk_address[u].value.kind = "Relative"


\* The permalink a lookup attaches to `path` on a handle whose cache is
\* still empty.
LkFreshPermalink(path) ==
    PathMapper_map_path(mp_stream, mp_flag, EmptyCache, path).value

\* C12: the permalink attached to a frame's path, by any caller and after
\* any other lookups on the handle, is the one a lookup on a fresh handle
\* attaches to that path; the cache holds nothing else either.
C12_MappedValueIndependent ==
    /\ \A p \in DOMAIN mp_cache : mp_cache[p] = LkFreshPermalink(p)
    /\ \A t \in Threads : \A i \in 1..Len(lk_frames[t]) :
          LET file_path == lk_frames[t][i].file_path
          IN  file_path.some =>
                 file_path.value.mapped_path = LkFreshPermalink(file_path.value.raw_path)
    /\ \A t \in Threads :
          (LkSucceeded(t) /\ lk_result[t].value.value.frames.some) =>
             lk_result[t].value.value.frames.value = lk_frames[t]

\* One caller has returned frames for a mapped and an unmapped path, and
\* the other caller, served from the cache, has attached the permalink of
\* the first path.
C12_Witness ==
    \E t \in Threads : \E u \in Threads \ {t} :
        /\ LkSucceeded(t)
        /\ Len(lk_frames[t]) = 2
        /\ lk_frames[t][1].file_path.some /\ lk_frames[t][2].file_path.some
        /\ lk_frames[t][1].file_path.value.mapped_path.some
        /\ lk_frames[t][2].file_path.value.mapped_path = None
        /\ lk_frames[t][1].file_path.value.raw_path # lk_frames[t][2].file_path.value.raw_path
        /\ lk_pc[u] = "map_frames"
        /\ Len(lk_frames[u]) = 1
        /\ lk_frames[u][1].file_path.some
        /\ lk_frames[u][1].file_path.value.mapped_path.some

\* The thread looks up a relative address.
LkRelative(t) == lk_address[t].some /\ lk_address[t].value.kind = "Relative"

\* C16: a successful lookup's symbol has the start of the function found
\* as its address and end minus start as its size, None without an end;
\* when the context reports an end below the start, the subtraction neither
\* panics nor gives a wrapped size.
C16_SizeNeverUnderflows ==
    \A t \in Threads :
        /\ lk_pc[t] # "panic_overflow"
        /\ LkSucceeded(t) =>
              LET symbol == lk_result[t].value.value.symbol
                  start == LkFound(t).start_rva
                  end == LkFound(t).end_rva
              IN  /\ symbol.address = start
                  /\ end = None => symbol.size = None
                  /\ (end.some /\ end.value >= start)
                        => symbol.size = Some(end.value - start)
                  /\ (end.some /\ end.value < start)
                        => symbol.size # Some(WrappedU32(start - end.value))

\* What the context returns for the thread's relative address.
LkContextResult(t) == find_frames(lk_context, lk_address[t].value.value)

\* C18: a lookup of a relative address for which the context returns an
\* error, nothing, or a function with an empty frame list does not panic:
\* in the first two cases it returns None, in the third it returns None or
\* a symbol named `unknown` without frames.
C18_EmptyFramesDoNotPanic ==
    \A t \in Threads :
        (LkRelative(t)
         /\ (LkContextResult(t).kind = "found"
                => LkContextResult(t).function_frames.frames = <<>>))
          => /\ lk_pc[t] \notin {"panic_unwrap", "panic_overflow"}
             /\ LkReturned(t) =>
                   IF LkContextResult(t).kind = "found"
                   THEN \/ lk_result[t] = Some(None)
                        \/ /\ lk_result[t].value.value.symbol.name = "unknown"
                           /\ lk_result[t].value.value.frames = None
                   ELSE lk_result[t] = Some(None)

\* The thread's call is in progress or has panicked.
LkCalled(t) == lk_pc[t] \notin {"idle", "done"}

\* The thread's call ended in a panic.
LkPanicked(t) == lk_pc[t] \in {"panic_poisoned", "panic_unwrap", "panic_overflow"}

\* The order of the locks: the path mapper lock is held only by the holder
\* of the outer lock, and a thread that asks for a lock does not hold it.
LkLockOrder ==
    \A t \in Threads :
        /\ lk_inner.holder = t => lk_outer.holder = t
        /\ lk_pc[t] = "with_inner" => lk_outer.holder # t
        /\ lk_pc[t] = "path_mapper_lock" => lk_inner.holder # t

\* C17: the outer lock is taken before the path mapper lock and never the
\* other way round, no thread asks for a lock it holds, and every call of
\* lookup_sync, iter_symbols, symbol_count or debug_id that is made
\* eventually returns, holding no lock.
C17_EveryCallReturns ==
    /\ []LkLockOrder
    /\ \A t \in Threads :
          (lk_pc[t] = "with_inner")
             ~> (LkReturned(t) /\ lk_outer.holder # t /\ lk_inner.holder # t)

\* What holds of the calls in place of C17: every call that is made
\* returns or panics, and holds no lock afterwards.
LkEveryCallEnds ==
    /\ []LkLockOrder
    /\ \A t \in Threads :
          (lk_pc[t] = "with_inner")
             ~> ((LkReturned(t) \/ LkPanicked(t))
                 /\ lk_outer.holder # t /\ lk_inner.holder # t)
(***************************************************************************)
(* Specifications.                                                         *)
(***************************************************************************)
UrlInit == UrlStart /\ UwIdle /\ MpIdle /\ LdIdle /\ LkIdle

UrlNext == UrlParse /\ UNCHANGED <<uwVars, mpVars, ldVars, lkVars>>

SpecUrl == UrlInit /\ [][UrlNext]_vars

UwInit == UwStart /\ UrlIdle /\ MpIdle /\ LdIdle /\ LkIdle

UwNext ==
    \/ UwNextRecord /\ UNCHANGED <<urlVars, mpVars, ldVars, lkVars>>
    \/ UwFollowChain /\ UNCHANGED <<urlVars, mpVars, ldVars, lkVars>>
    \/ UwEndChain /\ UNCHANGED <<urlVars, mpVars, ldVars, lkVars>>
    \/ UwGroup /\ UNCHANGED <<urlVars, mpVars, ldVars, lkVars>>

SpecUnwind == UwInit /\ [][UwNext]_vars

MpInit == MpStart /\ UrlIdle /\ UwIdle /\ LdIdle /\ LkIdle

MpNext == \E path \in Paths : MpMapPath(path) /\ UNCHANGED <<urlVars, uwVars, ldVars, lkVars>>

SpecMapper == MpInit /\ [][MpNext]_vars

LdInit == LdStart /\ UrlIdle /\ UwIdle /\ MpIdle /\ LkIdle

LdNext ==
    \/ LdParseBinary /\ UNCHANGED <<urlVars, uwVars, mpVars, lkVars>>
    \/ LdPdbInfo /\ UNCHANGED <<urlVars, uwVars, mpVars, lkVars>>
    \/ LdPathUtf8 /\ UNCHANGED <<urlVars, uwVars, mpVars, lkVars>>
    \/ LdPdbLocation /\ UNCHANGED <<urlVars, uwVars, mpVars, lkVars>>
    \/ LdLoadFile /\ UNCHANGED <<urlVars, uwVars, mpVars, lkVars>>
    \/ LdLoadFileReady /\ UNCHANGED <<urlVars, uwVars, mpVars, lkVars>>
    \/ LdDropped /\ UNCHANGED <<urlVars, uwVars, mpVars, lkVars>>
    \/ LdParsePdb /\ UNCHANGED <<urlVars, uwVars, mpVars, lkVars>>
    \/ LdCompare /\ UNCHANGED <<urlVars, uwVars, mpVars, lkVars>>

SpecLoad == LdInit /\ [][LdNext]_vars

LkInit == LkStart /\ LkMapperStart /\ UrlIdle /\ UwIdle /\ LdIdle

LkNext ==
    \E t \in Threads :
        \/ \E address \in LookupAddresses :
              LkCall(t, address) /\ UNCHANGED <<urlVars, uwVars, ldVars>>
        \/ \E method \in Methods :
              LkCallMethod(t, method) /\ UNCHANGED <<urlVars, uwVars, ldVars>>
        \/ LkLockOuter(t) /\ UNCHANGED <<urlVars, uwVars, ldVars>>
        \/ LkInnerCall(t) /\ UNCHANGED <<urlVars, uwVars, ldVars>>
        \/ LkMatchAddress(t) /\ UNCHANGED <<urlVars, uwVars, ldVars>>
        \/ LkFindFramesNone(t) /\ UNCHANGED <<urlVars, uwVars, ldVars>>
        \/ LkFindFramesEmpty(t) /\ UNCHANGED <<urlVars, uwVars, ldVars>>
        \/ LkFindFramesFound(t) /\ UNCHANGED <<urlVars, uwVars, ldVars>>
        \/ LkFindFramesWraps(t) /\ UNCHANGED <<urlVars, uwVars, ldVars>>
        \/ LkFindFramesOverflows(t) /\ UNCHANGED <<urlVars, uwVars, ldVars>>
        \/ LkLockInner(t) /\ UNCHANGED <<urlVars, uwVars, ldVars>>
        \/ LkMapFrame(t) /\ UNCHANGED <<urlVars, uwVars, ldVars>>
        \/ LkReturnFrames(t) /\ UNCHANGED <<urlVars, uwVars, ldVars>>

SpecLookup == LkInit /\ [][LkNext]_vars


\* The steps of a call of thread t once it is made.  A call runs to its
\* end: the scheduler runs every thread that can take a step, and a thread
\* that waits for a mutex gets it once it stays free.
LkThreadStep(t) ==
    \/ LkLockOuter(t) /\ UNCHANGED <<urlVars, uwVars, ldVars>>
    \/ LkInnerCall(t) /\ UNCHANGED <<urlVars, uwVars, ldVars>>
    \/ LkMatchAddress(t) /\ UNCHANGED <<urlVars, uwVars, ldVars>>
    \/ LkFindFramesNone(t) /\ UNCHANGED <<urlVars, uwVars, ldVars>>
    \/ LkFindFramesEmpty(t) /\ UNCHANGED <<urlVars, uwVars, ldVars>>
    \/ LkFindFramesFound(t) /\ UNCHANGED <<urlVars, uwVars, ldVars>>
    \/ LkFindFramesWraps(t) /\ UNCHANGED <<urlVars, uwVars, ldVars>>
    \/ LkFindFramesOverflows(t) /\ UNCHANGED <<urlVars, uwVars, ldVars>>
    \/ LkLockInner(t) /\ UNCHANGED <<urlVars, uwVars, ldVars>>
    \/ LkMapFrame(t) /\ UNCHANGED <<urlVars, uwVars, ldVars>>
    \/ LkReturnFrames(t) /\ UNCHANGED <<urlVars, uwVars, ldVars>>

SpecLookupFair ==
    LkInit /\ [][LkNext]_vars /\ \A t \in Threads : WF_vars(LkThreadStep(t))
=============================================================================
